---- MODULE Spec2Model ----
(***************************************************************************)
(* Three notebooks, each run in a kernel of its own (the variable notebook *)
(* says which one a behaviour is a run of):                                *)
(*  - "basics": the closed-form sequential Bayesian updating of the        *)
(*    linear-Gaussian model of lectures/02_bayesian_neural_networks/       *)
(*    01_pyro_basics.ipynb (the cells "Initialization", "Data / The        *)
(*    updated parameters", "Initialization / Update" and the posterior     *)
(*    predictive cell);                                                    *)
(*  - "svi": the stochastic variational inference runs of the linear       *)
(*    regression, first with the hand-written guide and then with an       *)
(*    automatic guide (unnamed/part_000, from line 786 on);                *)
(*  - "bnn": the training of the Bayesian regression network and its       *)
(*    predictive cell (unnamed/part_000, up to line 778).                  *)
(*                                                                         *)
(* Numbers are exact rationals <<n, d>> (d > 0, lowest terms): the model   *)
(* states what the numpy expressions compute up to floating-point          *)
(* rounding, which it does not represent.  A name that the kernel has not  *)
(* bound yet holds Undef.                                                  *)
(***************************************************************************)
EXTENDS Integers, Sequences, FiniteSets, TLC

VARIABLES notebook, So, mo, seps, Phi, y, Sn, mn, theta_plot, fx, sx2, exc, last,
          rparams, model_runs,
          seen, calls, prior0, svi, store, k, param_evolution, lines,
          rng, stepcalls, after_step, ELBO, ax, epoch_loss, samples,
          predictive_samples, pcalls, pc, returned

\* So .. sx2 are the notebook's names (theta_plot, an array of random draws, is
\* held as the distribution and the number of the draws; sx2 is the radicand
\* of sx); exc is the exception that ended the last
\* cell run, last the cell run last; seen (the observations of the successful
\* updates, in order), calls (their number) and prior0 (the prior that
\* Initialization set) record the history.  rparams is the sequence of the
\* values rparam takes in one run of a model sampling cell (the lines of its
\* figure), model_runs the number of runs of these cells.
\* svi is the SVI object ("none" before the cell that builds it), store pyro's
\* parameter store, k the index of the next iteration of the training loop,
\* param_evolution the lists the loop appends to, lines the y data of the plot.
\* rng is the global random generator: the seed it was given and the number of
\* sampling calls that have drawn from it since.  ELBO and ax are the list and
\* the plot of the second engine's loop, epoch_loss and samples the array and
\* the predictive draws of the regression network's loop (there ax is its
\* figure), predictive_samples what the predictive cell returned.  stepcalls
\* (the number of svi.step calls of the loop), returned (the losses that those
\* of them that returned have returned, in order), after_step (the store as the
\* last svi.step call left it) and pcalls (the Predictive calls of the last
\* cell that made any) record the history; pc is "loop" while a training loop
\* is between two of its iterations, "over" once it has been left, and "idle"
\* before.
basics == <<So, mo, seps, Phi, y, Sn, mn, theta_plot, fx, sx2, seen, calls, prior0,
            rparams, model_runs>>
training == <<svi, store, k, param_evolution, lines, rng, stepcalls, after_step,
              ELBO, ax, epoch_loss, samples, predictive_samples, pcalls, pc,
              returned>>
vars == <<notebook, basics, training, exc, last>>

\* Total number of observation rows one run presents to the updater (and so
\* the largest number of rows of one design matrix Phi).
MaxObs == 3
\* Number of iterations of the training loop a run makes (for k in range(3000)).
MaxSteps == 3
\* The same for the loop of the second engine (for k in range(3000)) and for the
\* loop of the regression network (len(epoch_loss), 1000).
MaxStepsAuto == 2
MaxStepsBNN == 3
\* Number of draws one Predictive call makes (num_samples, 1000 and 100).
NumSamples == 2
\* Number of iterations of a model sampling loop (for i in range(100)), and
\* number of runs of these cells in one run of the notebook.
NModels == 2
MaxModelRuns == 2

Undef == <<>>

(***************************************************************************)
(* Exact rational arithmetic.                                              *)
(***************************************************************************)
Abs(n) == IF n < 0 THEN -n ELSE n

RECURSIVE GCD(_, _)
GCD(a, b) == IF b = 0 THEN a ELSE GCD(b, a % b)

Norm(n, d) ==
    LET g == GCD(Abs(n), d) IN <<n \div g, d \div g>>

R(n) == <<n, 1>>
Zero == R(0)
One == R(1)

RAdd(a, b) ==
    LET g == GCD(a[2], b[2])
    IN  Norm(a[1] * (b[2] \div g) + b[1] * (a[2] \div g), (a[2] \div g) * b[2])

RNeg(a) == <<-a[1], a[2]>>

RSub(a, b) == RAdd(a, RNeg(b))

RMul(a, b) ==
    LET g1 == GCD(Abs(a[1]), b[2])
        g2 == GCD(Abs(b[1]), a[2])
    IN  Norm((a[1] \div g1) * (b[1] \div g2), (a[2] \div g2) * (b[2] \div g1))

\* 1/a, for a # 0
RInv(a) == IF a[1] < 0 THEN <<-a[2], -a[1]>> ELSE <<a[2], a[1]>>

RDiv(a, b) == RMul(a, RInv(b))

\* n1/d1 < n2/d2 for n1, n2 >= 0, by the continued fractions of the two
\* (no product is formed, so none can overflow)
RECURSIVE LtPos(_, _, _, _)
LtPos(n1, d1, n2, d2) ==
    LET q1 == n1 \div d1
        q2 == n2 \div d2
        r1 == n1 % d1
        r2 == n2 % d2
    IN  IF q1 # q2 THEN q1 < q2
        ELSE IF r2 = 0 THEN FALSE
        ELSE IF r1 = 0 THEN TRUE
        ELSE LtPos(d2, r2, d1, r1)

RLt(a, b) ==
    IF a[1] < 0
    THEN IF b[1] < 0 THEN LtPos(-b[1], b[2], -a[1], a[2]) ELSE TRUE
    ELSE IF b[1] < 0 THEN FALSE ELSE LtPos(a[1], a[2], b[1], b[2])
RLeq(a, b) == a = b \/ RLt(a, b)

(***************************************************************************)
(* 2-vectors and 2x2 matrices of rationals (theta = (b, w), P = 2).        *)
(***************************************************************************)
VAdd(u, v) == <<RAdd(u[1], v[1]), RAdd(u[2], v[2])>>
VScale(c, v) == <<RMul(c, v[1]), RMul(c, v[2])>>
Dot(u, v) == RAdd(RMul(u[1], v[1]), RMul(u[2], v[2]))

MAdd(A, B) == <<VAdd(A[1], B[1]), VAdd(A[2], B[2])>>
MScale(c, A) == <<VScale(c, A[1]), VScale(c, A[2])>>
MVec(A, v) == <<Dot(A[1], v), Dot(A[2], v)>>
Outer(u, v) == <<VScale(u[1], v), VScale(u[2], v)>>
ZeroM == <<<<Zero, Zero>>, <<Zero, Zero>>>>
ZeroV == <<Zero, Zero>>

Det(A) == RSub(RMul(A[1][1], A[2][2]), RMul(A[1][2], A[2][1]))

\* np.linalg.inv raises LinAlgError("Singular matrix") on a singular argument
Singular(A) == Det(A) = Zero

\* mutant of Inv: the off-diagonal entries of the adjugate not negated
InvNoAdjSign(A) ==
    LET d == Det(A)
    IN  <<<<RDiv(A[2][2], d), RDiv(A[1][2], d)>>,
          <<RDiv(A[2][1], d), RDiv(A[1][1], d)>>>>

\* np.linalg.inv(A), A not singular
Inv(A) ==
    LET d == Det(A)
    IN  <<<<RDiv(A[2][2], d), RDiv(RNeg(A[1][2]), d)>>,
          <<RDiv(RNeg(A[2][1]), d), RDiv(A[1][1], d)>>>>

\* np.linalg.solve(A, b), A not singular
Solve(A, b) ==
    LET d == Det(A)
    IN  <<RDiv(RSub(RMul(b[1], A[2][2]), RMul(A[1][2], b[2])), d),
          RDiv(RSub(RMul(A[1][1], b[2]), RMul(A[2][1], b[1])), d)>>

\* np.diag(v)
Diag(v) == <<<<v[1], Zero>>, <<Zero, v[2]>>>>

\* np.dot(Phi.T, Phi) for the N x 2 matrix Phi, given as its sequence of rows
RECURSIVE PhiTPhi(_)
PhiTPhi(P) ==
    IF P = <<>> THEN ZeroM ELSE MAdd(Outer(Head(P), Head(P)), PhiTPhi(Tail(P)))

\* np.dot(Phi.T, y)
RECURSIVE PhiTy(_, _)
PhiTy(P, Y) ==
    IF P = <<>> THEN ZeroV ELSE VAdd(VScale(Head(Y), Head(P)), PhiTy(Tail(P), Tail(Y)))

(***************************************************************************)
(* Inputs: the literals a reader of the notebook sets in the cells.        *)
(***************************************************************************)
\* prior means (mb, mw) (the notebook has 0., 0.)
MeanVals == {<<0, 0>>, <<1, -1>>}
\* prior standard deviations (sb, sw) (the notebook has 5., 5.; a 0 makes So
\* singular)
ScaleVals == {<<5, 5>>, <<5, 1>>, <<0, 5>>}
\* noise standard deviation seps (the notebook has 1.)
SepsVals == {1, 2}
\* observations (x, y); the notebook presents (2, 2) and then (-2, -2)
ObsVals == {<<2, 2>>, <<-2, -2>>, <<1, 0>>}
\* the standard deviation sw = sb of a wide prior
WideScales == {40}
\* test inputs, a few points of np.linspace(-5, 5, num=100)'s range
XTest == {<<-1, 1>>, <<-1, 2>>, <<0, 1>>, <<1, 1>>, <<2, 1>>}

\* a design row [1, x] of the line fit
Row(x) == <<One, x>>

Batches == UNION {[1..n -> ObsVals] : n \in 1..MaxObs}

\* Phi and y of a batch of observations
PhiOf(B) == [i \in 1..Len(B) |-> Row(R(B[i][1]))]
YOf(B) == [i \in 1..Len(B) |-> R(B[i][2])]

(***************************************************************************)
(* The update of the parameters (the two assignments to Sn and mn).        *)
(***************************************************************************)
\* seps**2
Seps2(se) == RMul(se, se)

\* mutants of Precision: the prior precision left unscaled; the data term
\* subtracted
PrecisionUnscaled(SoV, se, P) == MAdd(PhiTPhi(P), Inv(SoV))
PrecisionMinus(SoV, se, P) ==
    MAdd(MScale(R(-1), PhiTPhi(P)), MScale(Seps2(se), Inv(SoV)))

\* np.dot(Phi.T, Phi) + seps**2*np.linalg.inv(So)
Precision(SoV, se, P) == MAdd(PhiTPhi(P), MScale(Seps2(se), Inv(SoV)))

\* mutant of SnExpr: the leading seps**2 left out
SnExprUnscaled(SoV, se, P) == Inv(Precision(SoV, se, P))

\* Sn = seps**2*np.linalg.inv(np.dot(Phi.T, Phi) + seps**2*np.linalg.inv(So))
SnExpr(SoV, se, P) == MScale(Seps2(se), Inv(Precision(SoV, se, P)))

\* mn = np.dot(Sn, np.linalg.solve(So, mo)) + np.dot(Sn, np.dot(Phi.T, y))/seps**2
mnExpr(SnV, SoV, moV, se, P, Y) ==
    VAdd(MVec(SnV, Solve(SoV, moV)),
         VScale(RInv(Seps2(se)), MVec(SnV, PhiTy(P, Y))))

\* the Sn line raises: one of its two np.linalg.inv calls meets a singular matrix
SnRaises(SoV, se, P) == Singular(SoV) \/ Singular(Precision(SoV, se, P))

\* mutant of UpdatedParameters: Sn holds np.dot(Phi.T, Phi) when the inversion
\* raises
UpdatedParametersInPlace(SoV, moV, se, P, Y, SnOld, mnOld) ==
    IF SnRaises(SoV, se, P)
    THEN [Sn |-> PhiTPhi(P), mn |-> mnOld, exc |-> "LinAlgError"]
    ELSE LET S == SnExpr(SoV, se, P)
         IN  [Sn |-> S, mn |-> mnExpr(S, SoV, moV, se, P, Y), exc |-> "none"]

\* mutant of UpdatedParameters: a singular So is regularized (So + I) and the
\* update goes through
UpdatedParametersRegularized(SoV, moV, se, P, Y, SnOld, mnOld) ==
    LET So1 == IF Singular(SoV) THEN MAdd(SoV, Diag(<<One, One>>)) ELSE SoV
        S == SnExpr(So1, se, P)
    IN  [Sn |-> S, mn |-> mnExpr(S, So1, moV, se, P, Y), exc |-> "none"]

\* What the two lines leave in Sn, mn, and the exception that ends the cell.
\* An exception in the Sn line leaves both names as they were.
UpdatedParameters(SoV, moV, se, P, Y, SnOld, mnOld) ==
    IF SnRaises(SoV, se, P)
    THEN [Sn |-> SnOld, mn |-> mnOld, exc |-> "LinAlgError"]
    ELSE LET S == SnExpr(SoV, se, P)
         IN  [Sn |-> S, mn |-> mnExpr(S, SoV, moV, se, P, Y), exc |-> "none"]

(***************************************************************************)
(* The sampling and the posterior predictive cell.                         *)
(***************************************************************************)
\* np.random.multivariate_normal(mean, cov, size=10000)
MultivariateNormal(mean, cov) == [mean |-> mean, cov |-> cov, size |-> 10000]

\* mutant of SampledModels: the draws of all the runs so far
SampledModelsKept(mean, cov, n, run) ==
    [i \in 1..(n * run) |->
        [mean |-> mean, cov |-> cov, at |-> <<((i - 1) \div n) + 1, ((i - 1) % n) + 1>>]]

\* for i in range(n): np.random.multivariate_normal(mean, cov) -- one draw for
\* each i, known by the distribution it is from, the run of the cell and i
SampledModels(mean, cov, n, run) ==
    [i \in 1..n |-> [mean |-> mean, cov |-> cov, at |-> <<run, i>>]]

\* a row of Phi_x = np.vstack(([1]*100, x_test[:, 0])).T
PhiX(t) == <<One, t>>

\* np.dot(Phi_x, mn)
PredMean(mnV, t) == Dot(PhiX(t), mnV)

\* np.dot(v, A) for a row vector v
VecM(v, A) ==
    <<RAdd(RMul(v[1], A[1][1]), RMul(v[2], A[2][1])),
      RAdd(RMul(v[1], A[1][2]), RMul(v[2], A[2][2]))>>

\* the entry (s, t) of np.dot(np.dot(Phi_x, Sn), Phi_x.T)
Epistemic(SnV, s, t) == Dot(VecM(PhiX(s), SnV), PhiX(t))

\* mutant of PredCov: the noise term left out
PredCovNoNoise(SnV, se, s, t) == Epistemic(SnV, s, t)

\* the entry (s, t) of seps**2 + np.dot(np.dot(Phi_x, Sn), Phi_x.T)
PredCov(SnV, se, s, t) == RAdd(Seps2(se), Epistemic(SnV, s, t))

\* mutant of PredVar: the parameter-uncertainty term left out
PredVarNoiseOnly(SnV, se, t) == Seps2(se)

\* np.diag(...) of that matrix: the radicand of sx at the test input t
PredVar(SnV, se, t) == PredCov(SnV, se, t, t)

(***************************************************************************)
(* The SVI run: model_obs, guide, svi.step.                                *)
(*                                                                         *)
(* A guide parameter is held as a whole number of optimizer steps away     *)
(* from the initial value the guide declares for it (0 is that initial     *)
(* value); a loss is one of a few values.  The random draws of a step are  *)
(* inputs: the sign of each parameter's gradient, the loss, and whether    *)
(* the guide's draw of s lies in the support of the model's prior.         *)
(***************************************************************************)
\* param_names[1:]
ParamNames == {"w_loc", "b_loc", "s_loc", "w_scale", "b_scale"}
\* param_names
SeriesNames == {"ELBO"} \cup ParamNames

\* the parameters declared with constraint=constraints.positive
PositiveNames == {"w_scale", "b_scale", "s_loc"}

\* mutant of EmptyStore: the parameters of the guide at their initial values
InitialStore == [n \in ParamNames |-> 0]

\* the store after pyro.clear_param_store()
EmptyStore == [n \in {} |-> 0]

\* a float that is nan (held apart from every parameter and loss value)
NaN == 1000000

\* pyro.set_rng_seed(12345)
SeedLinear == 12345

\* the generator after pyro.set_rng_seed(seed)
Seeded(seed) == [seed |-> seed, pos |-> 0]
\* the generator after n more sampling calls
Advance(g, n) == [g EXCEPT !.pos = @ + n]

\* pyro.param(name, init) for every name of a guide: the stored value, created
\* from the initial value when the store has none; what else the store holds
\* stays
Created(names, st) ==
    [n \in DOMAIN st \cup names |-> IF n \in DOMAIN st THEN st[n] ELSE 0]

\* the parameters of the hand-written guide, as the guide finds or creates them
GuideParams(st) == [n \in ParamNames |-> Created(ParamNames, st)[n]]

\* the moves one optimizer step can make (ClippedAdam, lr 0.01)
GradSigns ==
    {[n \in ParamNames |-> -1],
     [n \in ParamNames |-> IF n \in {"w_loc", "b_loc"} THEN 1 ELSE 0]}
LossVals == {3, 7}

\* if np.mod(k, 100) == 0
PlotEvery == 100

\* mutant of InRange: the loop makes one iteration more
InRangeOneMore(kk, T) == kk < T + 1

\* for k in range(T): the loop has an iteration for kk
InRange(kk, T) == kk < T

\* svi.step of an engine whose guide has the parameters names: the guide runs
\* (creating its parameters in the store; with validation enabled, a
\* distribution built on a nan parameter raises), the model is replayed on the
\* guide's draws (with validation enabled, a draw outside the support of the
\* model's prior raises), and the optimizer then moves every parameter of the
\* guide; the loss is returned.  A nan loss is only warned about: its
\* gradients are nan, and so is every parameter after the optimizer's move.
StepOn(names, st, g, loss, inSupport) ==
    LET created == Created(names, st)
    IN  IF \E n \in names : created[n] = NaN
        THEN [store |-> created, loss |-> loss, exc |-> "ValueError", draws |-> 0]
        ELSE IF ~inSupport
        THEN [store |-> created, loss |-> loss, exc |-> "ValueError", draws |-> 1]
        ELSE [store |-> [n \in DOMAIN created |->
                            IF n \in names
                            THEN IF loss = NaN THEN NaN ELSE created[n] + g[n]
                            ELSE created[n]],
              loss |-> loss, exc |-> "none", draws |-> 1]

\* svi.step(x, y) of the engine with the hand-written guide
Step(st, g, loss, inSupport) == StepOn(ParamNames, st, g, loss, inSupport)

\* for name in param_names[1:]: pyro.param(name).item() -- the values read,
\* and the store the reads leave
ReadParams(st) == [values |-> [n \in ParamNames |-> st[n]], store |-> st]

(***************************************************************************)
(* The engines, and pyro.infer.Predictive.                                  *)
(*                                                                         *)
(* A random draw is known by where it comes from: the parameters of the    *)
(* guide it was drawn under, and the seed and the place in the stream of   *)
(* the global generator.                                                   *)
(***************************************************************************)
\* pyro.set_rng_seed(123)
SeedBNN == 123
\* len(x_torch): np.linspace(0, 1, num=20) less the slice(9, 14)
NData == 15
\* if k % 10 == 0
PlotEveryBNN == 10

\* the parameters AutoMultivariateNormal and AutoDiagonalNormal keep in the store
MVNNames == {"AutoMultivariateNormal.loc", "AutoMultivariateNormal.scale_tril"}
DiagNames == {"AutoDiagonalNormal.loc", "AutoDiagonalNormal.scale"}
\* the moves one optimizer step can make on them
AutoGradSigns(names) == {[n \in names |-> 1], [n \in names |-> -1]}

\* the sites model_obs samples with no obs= argument, and its other sites
ModelObsLatents == {"w", "b", "s"}
ModelObsOthers == {"y"}
\* the same for BayesianMLPRegression (its PyroSample attributes)
BNNLatents == {"hidden.weight", "hidden.bias", "output.weight", "output.bias"}
BNNOthers == {"mean", "obs"}

\* mutant of HandEngine: the guide does not sample s
HandEngineNoS ==
    [names |-> ParamNames, guide |-> {"w", "b"},
     latents |-> ModelObsLatents, others |-> ModelObsOthers]

\* guide and model of an engine: the guide's parameters, the sites the guide
\* samples, the latent sites of the model and its other sites.  An automatic
\* guide takes its sites from the model it is built on.
HandEngine ==
    [names |-> ParamNames, guide |-> {"w", "b", "s"},
     latents |-> ModelObsLatents, others |-> ModelObsOthers]
MVNEngine ==
    [names |-> MVNNames, guide |-> ModelObsLatents,
     latents |-> ModelObsLatents, others |-> ModelObsOthers]
BNNEngine ==
    [names |-> DiagNames, guide |-> BNNLatents,
     latents |-> BNNLatents, others |-> BNNOthers]

\* return_sites=("w", "b", "s", "y")
ReturnSites == {"w", "b", "s", "y"}
\* the sites Predictive returns when return_sites is not given: those the
\* guide does not sample
DefaultSites(e) == e.others

\* the j-th run of the guide: a draw of every site the guide samples
GuideDraw(e, st, gen, j) ==
    [n \in e.guide |->
        [site |-> n, params |-> [q \in e.names |-> st[q]],
         at |-> <<gen.seed, gen.pos, j>>]]

\* the model run with the latent sites set to the draw (a latent site the
\* draw lacks is drawn from its prior): the other sites are computed or drawn
\* from them, the observed one only when no observation is passed
\* (obs = "None")
ModelRun(e, draw, obs) ==
    [n \in e.latents \cup e.others |->
        IF n \in e.latents
        THEN IF n \in DOMAIN draw THEN draw[n]
             ELSE [site |-> n, params |-> <<>>, at |-> <<>>]
        ELSE IF obs = "None" \/ n = "mean"
             THEN [site |-> n, params |-> draw, at |-> <<>>]
             ELSE [site |-> n, params |-> obs, at |-> <<>>]]

\* mutant of Predictive: one draw of the guide is used for every run of the model
PredictiveOneDraw(e, st, gen, num, return_sites, obs, inSupport) ==
    LET created == Created(e.names, st)
    IN  [samples |-> [n \in return_sites |->
                         [j \in 1..num |-> ModelRun(e, GuideDraw(e, created, gen, 1), obs)[n]]],
         traced |-> [guide |-> e.guide, model |-> e.latents],
         store |-> created, rng |-> Advance(gen, 1), exc |-> "none"]

\* mutant of Predictive: the guide's parameters are initialized anew
PredictiveReinit(e, st, gen, num, return_sites, obs, inSupport) ==
    LET fresh == [n \in DOMAIN st \cup e.names |-> 0]
    IN  [samples |-> [n \in return_sites |->
                         [j \in 1..num |-> ModelRun(e, GuideDraw(e, fresh, gen, j), obs)[n]]],
         traced |-> [guide |-> e.guide, model |-> e.latents],
         store |-> fresh, rng |-> Advance(gen, 1), exc |-> "none"]

\* Predictive(model, guide=guide, num_samples=num, return_sites=...)(x, obs):
\* the guide runs num times and the model once on each of its draws; the
\* values of the sites to return are stacked.  The guide creates the
\* parameters the store lacks; with validation enabled a nan parameter, or a
\* draw outside the support of the model's prior, raises.  traced names the
\* sites the guide has sampled and the latent sites the model has.
Predictive(e, st, gen, num, return_sites, obs, inSupport) ==
    LET created == Created(e.names, st)
    IN  IF \E n \in e.names : created[n] = NaN
        THEN [samples |-> Undef, traced |-> [guide |-> {}, model |-> {}],
              store |-> created, rng |-> gen, exc |-> "ValueError"]
        ELSE IF ~inSupport
        THEN [samples |-> Undef,
              traced |-> [guide |-> DOMAIN GuideDraw(e, created, gen, 1), model |-> {}],
              store |-> created, rng |-> Advance(gen, 1), exc |-> "ValueError"]
        ELSE [samples |-> [n \in return_sites |->
                              [j \in 1..num |->
                                  ModelRun(e, GuideDraw(e, created, gen, j), obs)[n]]],
              traced |->
                  [guide |-> DOMAIN GuideDraw(e, created, gen, 1),
                   model |-> DOMAIN ModelRun(e, GuideDraw(e, created, gen, 1), obs)
                                \ e.others],
              store |-> created, rng |-> Advance(gen, 1), exc |-> "none"]

\* what one Predictive call was given and what it returned
CallRecord(st, gen, obs, r) ==
    [params |-> st, inputs |-> <<"x_test", obs>>, seed |-> gen.seed, out |-> r.samples,
     exc |-> r.exc, traced |-> r.traced]

\* mutant of DivLen: the loss as svi.step returned it
NotDivided(loss) == IF loss = NaN THEN <<NaN, 1>> ELSE R(loss)

\* loss / len(x_torch)
DivLen(loss) == IF loss = NaN THEN <<NaN, 1>> ELSE RDiv(R(loss), R(NData))

(***************************************************************************)
(* The notebooks as a state machine: one action per cell, and one per       *)
(* iteration of a training loop.                                           *)
(***************************************************************************)
Init ==
    /\ notebook \in {"basics", "svi", "bnn"}
    /\ svi = "none" /\ store = EmptyStore /\ k = 0
    /\ param_evolution = Undef /\ lines = Undef
    /\ rng = Undef /\ stepcalls = 0 /\ after_step = Undef
    /\ ELBO = Undef /\ ax = Undef /\ epoch_loss = Undef /\ samples = Undef
    /\ predictive_samples = Undef /\ pcalls = <<>> /\ pc = "idle"
    /\ returned = <<>>
    /\ So = Undef /\ mo = Undef /\ seps = Undef
    /\ Phi = Undef /\ y = Undef
    /\ Sn = Undef /\ mn = Undef /\ theta_plot = Undef
    /\ fx = Undef /\ sx2 = Undef
    /\ rparams = Undef /\ model_runs = 0
    /\ exc = "none"
    /\ last = "none"
    /\ seen = <<>>
    /\ calls = 0
    /\ prior0 = Undef

\* "# Initialization": mw, mb, sw, sb, So, mo, seps
Initialization(mb, mw, sb, sw, se) ==
    /\ notebook = "basics"
    /\ So = Undef
    /\ So' = Diag(<<RMul(R(sb), R(sb)), RMul(R(sw), R(sw))>>)
    /\ mo' = <<R(mb), R(mw)>>
    /\ seps' = R(se)
    /\ theta_plot' = MultivariateNormal(mo', So')
    /\ prior0' = <<mo', So'>>
    /\ exc' = "none"
    /\ last' = "Initialization"
    /\ UNCHANGED <<notebook, training, Phi, y, Sn, mn, fx, sx2, seen, calls, rparams,
                   model_runs>>

\* "# Data ... # The updated parameters": the first posterior from the prior
FirstUpdate(B) ==
    /\ So # Undef /\ Sn = Undef
    /\ Len(seen) + Len(B) <= MaxObs
    /\ LET P == PhiOf(B)
           Y == YOf(B)
           u == UpdatedParameters(So, mo, seps, P, Y, Sn, mn)
       IN  /\ Phi' = P
           /\ y' = Y
           /\ Sn' = u.Sn
           /\ mn' = u.mn
           /\ exc' = u.exc
           /\ theta_plot' =
                IF u.exc = "none" THEN MultivariateNormal(u.mn, u.Sn) ELSE theta_plot
           /\ seen' = IF u.exc = "none" THEN seen \o B ELSE seen
           /\ calls' = IF u.exc = "none" THEN calls + 1 ELSE calls
    /\ last' = "FirstUpdate"
    /\ UNCHANGED <<notebook, training, So, mo, seps, fx, sx2, prior0, rparams,
                   model_runs>>

\* mutant of SecondUpdate: the assignments So = Sn, mo = mn left out, so that
\* the update starts again from the prior of the first update
SecondUpdateStalePrior(B) ==
    /\ Sn # Undef /\ mn # Undef
    /\ Len(seen) + Len(B) <= MaxObs
    /\ LET P == PhiOf(B)
           Y == YOf(B)
           u == UpdatedParameters(So, mo, seps, P, Y, Sn, mn)
       IN  /\ Phi' = P
           /\ y' = Y
           /\ Sn' = u.Sn
           /\ mn' = u.mn
           /\ exc' = u.exc
           /\ theta_plot' =
                IF u.exc = "none" THEN MultivariateNormal(u.mn, u.Sn) ELSE theta_plot
           /\ seen' = IF u.exc = "none" THEN seen \o B ELSE seen
           /\ calls' = IF u.exc = "none" THEN calls + 1 ELSE calls
    /\ last' = "SecondUpdate"
    /\ UNCHANGED <<notebook, training, So, mo, seps, fx, sx2, prior0, rparams,
                   model_runs>>

\* "# Initialization So = Sn, mo = mn #Update": the previous posterior as prior
SecondUpdate(B) ==
    /\ Sn # Undef /\ mn # Undef
    /\ Len(seen) + Len(B) <= MaxObs
    /\ LET P == PhiOf(B)
           Y == YOf(B)
           u == UpdatedParameters(Sn, mn, seps, P, Y, Sn, mn)
       IN  /\ So' = Sn
           /\ mo' = mn
           /\ Phi' = P
           /\ y' = Y
           /\ Sn' = u.Sn
           /\ mn' = u.mn
           /\ exc' = u.exc
           /\ theta_plot' =
                IF u.exc = "none" THEN MultivariateNormal(u.mn, u.Sn) ELSE theta_plot
           /\ seen' = IF u.exc = "none" THEN seen \o B ELSE seen
           /\ calls' = IF u.exc = "none" THEN calls + 1 ELSE calls
    /\ last' = "SecondUpdate"
    /\ UNCHANGED <<notebook, training, seps, fx, sx2, prior0, rparams, model_runs>>

\* mutant of PosteriorPredictive: the noise variance is added to Sn in place
PosteriorPredictiveInPlace ==
    /\ Sn # Undef /\ mn # Undef
    /\ Sn' = MAdd(Sn, Diag(<<Seps2(seps), Seps2(seps)>>))
    /\ fx' = [t \in XTest |-> PredMean(mn, t)]
    /\ sx2' = [t \in XTest |-> PredVar(Sn, seps, t)]
    /\ exc' = "none"
    /\ last' = "PosteriorPredictive"
    /\ UNCHANGED <<notebook, training, So, mo, seps, Phi, y, mn, theta_plot, seen,
                   calls, prior0, rparams, model_runs>>

\* the posterior predictive cell: Phi_x, sx and np.dot(Phi_x, mn)
PosteriorPredictive ==
    /\ Sn # Undef /\ mn # Undef
    /\ fx' = [t \in XTest |-> PredMean(mn, t)]
    /\ sx2' = [t \in XTest |-> PredVar(Sn, seps, t)]
    /\ exc' = "none"
    /\ last' = "PosteriorPredictive"
    /\ UNCHANGED <<notebook, training, So, mo, seps, Phi, y, Sn, mn, theta_plot, seen,
                   calls, prior0, rparams, model_runs>>

\* a model sampling cell: for i in range(100): rparam =
\* np.random.multivariate_normal(mn, Sn), and a line of the figure for each
SampleModels ==
    /\ Sn # Undef /\ mn # Undef
    /\ model_runs < MaxModelRuns
    /\ model_runs' = model_runs + 1
    /\ rparams' = SampledModels(mn, Sn, NModels, model_runs')
    /\ exc' = "none"
    /\ last' = "SampleModels"
    /\ UNCHANGED <<notebook, training, So, mo, seps, Phi, y, Sn, mn, theta_plot, fx, sx2,
                   seen, calls, prior0>>

\* pyro.set_rng_seed(12345); x = torch.randn(5); y = 2*x -1 + 0.5*torch.randn(len(x))
Data ==
    /\ notebook = "svi"
    /\ rng = Undef /\ svi = "none"
    /\ rng' = Advance(Seeded(SeedLinear), 2)
    /\ exc' = "none"
    /\ last' = "Data"
    /\ UNCHANGED <<notebook, basics, svi, store, k, param_evolution, lines, stepcalls, returned,
                   after_step, ELBO, ax, epoch_loss, samples, predictive_samples,
                   pcalls, pc>>

\* pyro.clear_param_store(); svi = pyro.infer.SVI(...); param_evolution = {}
SetupSVI ==
    /\ notebook = "svi"
    /\ svi = "none" /\ rng # Undef
    /\ svi' = "built"
    /\ store' = EmptyStore
    /\ param_evolution' = [n \in SeriesNames |-> <<>>]
    /\ lines' = [n \in SeriesNames |-> <<>>]
    /\ k' = 0
    /\ exc' = "none"
    /\ last' = "SetupSVI"
    /\ UNCHANGED <<notebook, basics, rng, stepcalls, returned, after_step, ELBO, ax, epoch_loss,
                   samples, predictive_samples, pcalls, pc>>

\* one iteration of "for k in tqdm(range(3000))": the step, the appends, and
\* the refresh of the plot; an exception in svi.step ends the loop
TrainIteration(g, loss, inSupport) ==
    /\ notebook = "svi"
    /\ svi = "built" /\ rng # Undef
    /\ pc = "loop" \/ (pc = "idle" /\ stepcalls = 0)
    /\ InRange(k, MaxSteps)
    /\ LET r == Step(store, g, loss, inSupport)
           rd == ReadParams(r.store)
       IN  /\ stepcalls' = stepcalls + 1
           /\ returned' = IF r.exc = "none" THEN Append(returned, r.loss) ELSE returned
           /\ after_step' = r.store
           /\ rng' = Advance(rng, r.draws)
           /\ exc' = r.exc
           /\ pc' = IF r.exc = "none" /\ InRange(k + 1, MaxSteps) THEN "loop" ELSE "over"
           /\ IF r.exc = "none"
              THEN /\ store' = rd.store
                   /\ param_evolution' =
                        [n \in SeriesNames |->
                            Append(param_evolution[n],
                                   IF n = "ELBO" THEN r.loss ELSE rd.values[n])]
                   /\ lines' =
                        IF k % PlotEvery = 0
                        THEN [n \in SeriesNames |-> SubSeq(param_evolution'[n], 1, k)]
                        ELSE lines
                   /\ k' = k + 1
              ELSE /\ store' = r.store
                   /\ UNCHANGED <<param_evolution, lines, k>>
    /\ last' = "TrainIteration"
    /\ UNCHANGED <<notebook, svi, basics, ELBO, ax, epoch_loss, samples,
                   predictive_samples, pcalls>>

\* the cell of the second engine up to its loop: pyro.clear_param_store();
\* guide = AutoMultivariateNormal(model_obs, init_scale=1e-2); svi = ...; ELBO = []
SetupAuto ==
    /\ notebook = "svi"
    /\ svi \in {"none", "built"} /\ pc # "loop" /\ rng # Undef
    /\ svi' = "auto"
    /\ store' = EmptyStore
    /\ ELBO' = <<>>
    /\ ax' = <<>>
    /\ k' = 0
    /\ stepcalls' = 0
    /\ returned' = <<>>
    /\ pc' = "loop"
    /\ exc' = "none"
    /\ last' = "SetupAuto"
    /\ UNCHANGED <<notebook, basics, param_evolution, lines, rng, after_step, epoch_loss,
                   samples, predictive_samples, pcalls>>

\* one iteration of the second engine's "for k in tqdm(range(3000))"
TrainIterationAuto(g, loss) ==
    /\ notebook = "svi"
    /\ svi = "auto" /\ pc = "loop" /\ rng # Undef
    /\ InRange(k, MaxStepsAuto)
    /\ LET r == StepOn(MVNNames, store, g, loss, TRUE)
       IN  /\ stepcalls' = stepcalls + 1
           /\ returned' = IF r.exc = "none" THEN Append(returned, r.loss) ELSE returned
           /\ after_step' = r.store
           /\ rng' = Advance(rng, r.draws)
           /\ store' = r.store
           /\ exc' = r.exc
           /\ pc' = IF r.exc = "none" /\ InRange(k + 1, MaxStepsAuto) THEN "loop" ELSE "over"
           /\ IF r.exc = "none"
              THEN /\ ELBO' = Append(ELBO, r.loss)
                   /\ ax' = IF k % PlotEvery = 0 THEN ELBO' ELSE ax
                   /\ k' = k + 1
              ELSE UNCHANGED <<ELBO, ax, k>>
    /\ last' = "TrainIterationAuto"
    /\ UNCHANGED <<notebook, svi, basics, param_evolution, lines, epoch_loss, samples,
                   predictive_samples, pcalls>>

\* predictive = pyro.infer.Predictive(model_obs, return_sites=("w", "b", "s", "y"),
\* guide=guide, num_samples=1000); predictive_samples = predictive(x_test)
PredictiveCell(inSupport) ==
    /\ notebook = "svi"
    /\ rng # Undef /\ pc # "loop"
    /\ pcalls = <<>>
    /\ LET e == IF svi = "auto" THEN MVNEngine ELSE HandEngine
           r == Predictive(e, store, rng, NumSamples, ReturnSites, "None",
                           inSupport \/ svi = "auto")
       IN  /\ store' = r.store
           /\ rng' = r.rng
           /\ exc' = r.exc
           /\ pcalls' = <<CallRecord(store, rng, "None", r)>>
           /\ predictive_samples' =
                IF r.exc = "none" THEN r.samples ELSE predictive_samples
    /\ last' = "PredictiveCell"
    /\ UNCHANGED <<notebook, basics, svi, k, param_evolution, lines, stepcalls, returned,
                   after_step, ELBO, ax, epoch_loss, samples, pc>>

\* the cell of the regression network up to its loop: pyro.set_rng_seed(123);
\* pyro.clear_param_store(); guide = AutoDiagonalNormal(model, init_scale=1e-2);
\* svi = ...; epoch_loss = np.zeros(shape=(1000,))
SetupBNN ==
    /\ notebook = "bnn"
    /\ svi = "none"
    /\ rng' = Seeded(SeedBNN)
    /\ store' = EmptyStore
    /\ svi' = "bnn"
    /\ epoch_loss' = [i \in 1..MaxStepsBNN |-> Zero]
    /\ k' = 0
    /\ stepcalls' = 0
    /\ returned' = <<>>
    /\ pc' = "loop"
    /\ exc' = "none"
    /\ last' = "SetupBNN"
    /\ UNCHANGED <<notebook, basics, param_evolution, lines, after_step, ELBO, ax,
                   samples, predictive_samples, pcalls>>

\* one iteration of "for k in tqdm(range(len(epoch_loss)))": the step, the
\* entry of epoch_loss, and every tenth time the predictive draws and the plot
TrainIterationBNN(g, loss) ==
    /\ notebook = "bnn"
    /\ svi = "bnn" /\ pc = "loop"
    /\ InRange(k, MaxStepsBNN)
    /\ LET r == StepOn(DiagNames, store, g, loss, TRUE)
           p == Predictive(BNNEngine, r.store, Advance(rng, r.draws), NumSamples,
                           DefaultSites(BNNEngine), "None", TRUE)
           plots == r.exc = "none" /\ k % PlotEveryBNN = 0
           raised == r.exc # "none" \/ (plots /\ p.exc # "none")
       IN  /\ stepcalls' = stepcalls + 1
           /\ returned' = IF r.exc = "none" THEN Append(returned, r.loss) ELSE returned
           /\ after_step' = r.store
           /\ epoch_loss' =
                IF r.exc = "none"
                THEN [epoch_loss EXCEPT ![k + 1] = DivLen(r.loss)]
                ELSE epoch_loss
           /\ store' = IF plots THEN p.store ELSE r.store
           /\ rng' = IF plots THEN p.rng ELSE Advance(rng, r.draws)
           /\ pcalls' =
                IF plots
                THEN <<CallRecord(r.store, Advance(rng, r.draws), "None", p)>>
                ELSE pcalls
           /\ IF plots /\ p.exc = "none"
              THEN /\ samples' = p.samples["mean"]
                   /\ ax' = [loss |-> SubSeq(epoch_loss', 1, k), samples |-> samples']
              ELSE UNCHANGED <<samples, ax>>
           /\ exc' = IF r.exc # "none" THEN r.exc
                     ELSE IF plots THEN p.exc ELSE "none"
           /\ k' = IF raised THEN k ELSE k + 1
           /\ pc' = IF ~raised /\ InRange(k + 1, MaxStepsBNN) THEN "loop" ELSE "over"
    /\ last' = "TrainIterationBNN"
    /\ UNCHANGED <<notebook, svi, basics, param_evolution, lines, ELBO,
                   predictive_samples>>

\* predictive = pyro.infer.Predictive(model, guide=guide, num_samples=100); the
\* shapes of predictive(x_test, None) are printed and the 'mean' draws of
\* predictive(x_test) are plotted
PredictiveCellBNN ==
    /\ notebook = "bnn"
    /\ svi = "bnn" /\ pc = "over"
    /\ last # "PredictiveCellBNN"
    /\ LET p1 == Predictive(BNNEngine, store, rng, NumSamples,
                            DefaultSites(BNNEngine), "None", TRUE)
           p2 == Predictive(BNNEngine, p1.store, p1.rng, NumSamples,
                            DefaultSites(BNNEngine), "None", TRUE)
       IN  IF p1.exc # "none"
           THEN /\ store' = p1.store /\ rng' = p1.rng /\ exc' = p1.exc
                /\ pcalls' = <<CallRecord(store, rng, "None", p1)>>
                /\ ax' = ax
           ELSE /\ store' = p2.store /\ rng' = p2.rng /\ exc' = p2.exc
                /\ pcalls' = <<CallRecord(store, rng, "None", p1),
                               CallRecord(p1.store, p1.rng, "None", p2)>>
                /\ ax' = IF p2.exc = "none"
                         THEN [loss |-> <<>>, samples |-> p2.samples["mean"]]
                         ELSE ax
    /\ last' = "PredictiveCellBNN"
    /\ UNCHANGED <<notebook, basics, svi, k, param_evolution, lines, stepcalls, returned,
                   after_step, ELBO, epoch_loss, samples, predictive_samples, pc>>

\* the cells of the updater
NextUpdater ==
    \/ \E m \in MeanVals, s \in ScaleVals, se \in SepsVals :
          Initialization(m[1], m[2], s[1], s[2], se)
    \/ \E B \in Batches : FirstUpdate(B)
    \/ \E B \in Batches : SecondUpdate(B)
    \/ PosteriorPredictive

\* the cells of the notebooks of part_000
NextTraining ==
    \/ Data
    \/ SetupSVI
    \/ \E g \in GradSigns, loss \in LossVals \cup {NaN}, inSupport \in BOOLEAN :
          TrainIteration(g, loss, inSupport)
    \/ SetupAuto
    \/ \E g \in AutoGradSigns(MVNNames), loss \in LossVals \cup {NaN} :
          TrainIterationAuto(g, loss)
    \/ \E inSupport \in BOOLEAN : PredictiveCell(inSupport)
    \/ SetupBNN
    \/ \E g \in AutoGradSigns(DiagNames), loss \in LossVals \cup {NaN} :
          TrainIterationBNN(g, loss)
    \/ PredictiveCellBNN

Next == NextUpdater \/ NextTraining

Spec == Init /\ [][Next]_vars

\* the updater's notebook with its model sampling cells, from the prior the
\* notebook itself sets (mw, mb = 0., 0.; sw, sb = 5., 5.; seps = 1.)
InitSampling == Init /\ notebook = "basics"
NextSampling ==
    \/ Initialization(0, 0, 5, 5, 1)
    \/ \E B \in Batches : FirstUpdate(B)
    \/ \E B \in Batches : SecondUpdate(B)
    \/ PosteriorPredictive
    \/ SampleModels
SpecSampling == InitSampling /\ [][NextSampling]_vars

\* the updater's notebook up to its first update, from a wide zero-mean prior
NextWide ==
    \/ \E s \in WideScales : Initialization(0, 0, s, s, 1)
    \/ \E B \in Batches : FirstUpdate(B)
    \/ PosteriorPredictive
    \/ SampleModels
SpecWide == InitSampling /\ [][NextWide]_vars

(***************************************************************************)
(* Properties.                                                             *)
(***************************************************************************)
\* the belief (mu, Sigma) the next update starts from: the last posterior,
\* and the prior while no posterior exists
BeliefMean == IF Sn # Undef THEN mn ELSE mo
BeliefCov == IF Sn # Undef THEN Sn ELSE So

\* a step that is a successful run of one of the two update cells
UpdateDone == last' \in {"FirstUpdate", "SecondUpdate"} /\ exc' = "none"

\* x^T A x, term by term
QuadForm(A, x) ==
    RAdd(RAdd(RMul(RMul(x[1], x[1]), A[1][1]), RMul(RMul(x[1], x[2]), A[1][2])),
         RAdd(RMul(RMul(x[2], x[1]), A[2][1]), RMul(RMul(x[2], x[2]), A[2][2])))

\* C1: a successful update replaces the belief (mu, Sigma) it finds at the
\* call by (mu1, Sigma1) with Sigma1^-1 = Sigma^-1 + Phi^T Phi / seps^2 and
\* Sigma1^-1 mu1 = Sigma^-1 mu + Phi^T y / seps^2.
C1_UpdateIsConjugate ==
    [][UpdateDone =>
        LET q == RInv(Seps2(seps))
        IN  /\ Inv(Sn') = MAdd(Inv(BeliefCov), MScale(q, PhiTPhi(Phi')))
            /\ MVec(Inv(Sn'), mn') =
                 VAdd(MVec(Inv(BeliefCov), BeliefMean), VScale(q, PhiTy(Phi', y')))]_vars

\* an update that started from the posterior of an earlier update
C1_Witness ==
    /\ last = "SecondUpdate" /\ exc = "none" /\ calls >= 2
    /\ So # prior0[2]

\* the permutations of a sequence
PermsOf(sq) ==
    {[i \in 1..Len(sq) |-> sq[f[i]]] :
        f \in {g \in [1..Len(sq) -> 1..Len(sq)] :
                 \A i, j \in 1..Len(sq) : g[i] = g[j] => i = j}}

\* the posterior of one update from the prior with all of B as its rows
BatchPosterior(B) ==
    LET u == UpdatedParameters(prior0[2], prior0[1], seps, PhiOf(B), YOf(B), Undef, Undef)
    IN  <<u.mn, u.Sn>>

\* C2: whatever the split of the observations into successive updates and
\* whatever their order, the posterior is that of one batch update from the
\* prior with all the rows, taken in any order.
C2_BatchEqualsSequential ==
    (last \in {"FirstUpdate", "SecondUpdate"} /\ exc = "none") => \A B \in PermsOf(seen) : BatchPosterior(B) = <<mn, Sn>>

\* three single-row updates of rows that are not all the same
C2_Witness ==
    /\ calls = 3 /\ Len(seen) = 3 /\ exc = "none"
    /\ seen[1] # seen[2]

\* symmetric positive semi-definite (2 x 2)
PSD(A) ==
    /\ A[1][2] = A[2][1]
    /\ RLeq(Zero, A[1][1]) /\ RLeq(Zero, A[2][2])
    /\ RLeq(Zero, Det(A))

\* C4: the covariance is symmetric positive semi-definite after the
\* initialization and after every successful update.
C4_CovarianceIsPSD ==
    /\ So # Undef => PSD(So)
    /\ Sn # Undef => PSD(Sn)

\* a posterior with correlated parameters, after two updates
C4_Witness == Sn # Undef /\ calls >= 2 /\ Sn[1][2] # Zero

\* C5: the predictive cell yields, for each test input, the mean x^T mu and
\* the variance seps^2 + x^T Sigma x of the posterior it is run on.
C5_PredictIsNoisePlusEpistemic ==
    last = "PosteriorPredictive" =>
        \A t \in XTest :
            /\ fx[t] = RAdd(mn[1], RMul(mn[2], t))
            /\ sx2[t] = RAdd(Seps2(seps), QuadForm(Sn, PhiX(t)))

\* a prediction from the posterior of a second update, with seps # 1
C5_Witness == last = "PosteriorPredictive" /\ calls >= 2 /\ seps # One

\* every row of P is the design row of the test input t
Aligned(P, t) == \A i \in 1..Len(P) : P[i] = PhiX(t)

\* C6: an update whose rows are aligned with x does not increase the
\* predictive variance at x (that of the belief the update starts from).
C6_VarianceNonIncreasing ==
    [][UpdateDone =>
        \A t \in XTest :
            Aligned(Phi', t) =>
                RLeq(PredVar(Sn', seps', t), PredVar(BeliefCov, seps, t))]_vars

\* after such an update (So holds the posterior it started from) the variance
\* at the aligned input is strictly smaller
C6_Witness ==
    /\ last = "SecondUpdate" /\ exc = "none"
    /\ \E t \in XTest :
          Aligned(Phi, t) /\ RLt(PredVar(Sn, seps, t), PredVar(So, seps, t))

OrthogonalToAll(obs, t) ==
    \A i \in 1..Len(obs) : Dot(Row(R(obs[i][1])), PhiX(t)) = Zero

\* the prior covariance is a multiple of the identity
IsotropicPrior == prior0[2][1][1] = prior0[2][2][2]

\* C8 as stated: for x orthogonal to all the rows seen so far (those of the
\* update included), x^T Sigma x after an update is at least its value before.
C8_Original ==
    [][UpdateDone =>
        \A t \in XTest :
            OrthogonalToAll(seen', t) =>
                RLeq(Epistemic(BeliefCov, t, t), Epistemic(Sn', t, t))]_vars

\* C8, amended: the same for a prior covariance that is a multiple of the
\* identity.
C8_OrthogonalKeptIsotropic ==
    [][(UpdateDone /\ IsotropicPrior) =>
        \A t \in XTest :
            OrthogonalToAll(seen', t) =>
                RLeq(Epistemic(BeliefCov, t, t), Epistemic(Sn', t, t))]_vars

\* two updates from an isotropic prior with seps # 1, and a test input
\* orthogonal to all their rows whose epistemic term is still the prior's
C8_Witness ==
    /\ last = "SecondUpdate" /\ exc = "none" /\ calls >= 2
    /\ IsotropicPrior /\ seps # One
    /\ \E t \in XTest :
          /\ OrthogonalToAll(seen, t)
          /\ Epistemic(Sn, t, t) = Epistemic(prior0[2], t, t)

\* |a - n/d| <= 1/tol
Near(a, n, d, tol) ==
    /\ RLeq(a, RAdd(Norm(n, d), <<1, tol>>))
    /\ RLeq(RSub(Norm(n, d), <<1, tol>>), a)

\* the notebook's own run: prior mean [0, 0], So = diag(25, 25), seps = 1
\* and the first update with Phi = [[1, 2]], y = [2]
Scenario ==
    /\ prior0 = <<ZeroV, Diag(<<R(25), R(25)>>)>>
    /\ seps = One
    /\ last = "FirstUpdate" /\ exc = "none"
    /\ Phi = <<Row(R(2))>> /\ y = <<R(2)>>

\* C9 as stated: the posterior covariance is [[0.962, -0.385], [-0.385,
\* 0.558]] to three decimals and the posterior mean (b, w) has b + 2w near 2.
C9_Original ==
    Scenario =>
        /\ Near(Sn[1][1], 962, 1000, 2000) /\ Near(Sn[1][2], -385, 1000, 2000)
        /\ Near(Sn[2][1], -385, 1000, 2000) /\ Near(Sn[2][2], 558, 1000, 2000)
        /\ Near(RAdd(mn[1], RMul(R(2), mn[2])), 2, 1, 50)

\* C9, amended: the posterior covariance is [[20.040, -9.921], [-9.921,
\* 5.159]] to three decimals (exactly [[2525, -1250], [-1250, 650]] / 126),
\* and the posterior mean (b, w) has b + 2w within 0.02 of 2.
C9_ScenarioPosterior ==
    Scenario =>
        /\ Near(Sn[1][1], 20040, 1000, 2000) /\ Near(Sn[1][2], -9921, 1000, 2000)
        /\ Near(Sn[2][1], -9921, 1000, 2000) /\ Near(Sn[2][2], 5159, 1000, 2000)
        /\ Sn = <<<<Norm(2525, 126), Norm(-1250, 126)>>,
                  <<Norm(-1250, 126), Norm(650, 126)>>>>
        /\ Near(RAdd(mn[1], RMul(R(2), mn[2])), 2, 1, 50)

C9_Witness == Scenario /\ mn = <<Norm(50, 126), Norm(100, 126)>>

\* the two states of the updater
Status == IF So = Undef THEN "UNINITIALIZED" ELSE "READY"

\* symmetric positive definite (2 x 2)
SPD(A) ==
    /\ A[1][2] = A[2][1]
    /\ RLt(Zero, A[1][1]) /\ RLt(Zero, Det(A))

\* C10 as stated: READY is entered only by an initialization with a valid
\* (symmetric positive-definite) prior, an update run in READY ends in READY,
\* and READY is never left.
C10_Original ==
    [][/\ (Status = "UNINITIALIZED" /\ Status' = "READY") =>
             (last' = "Initialization" /\ SPD(So'))
       /\ Status = "READY" => Status' = "READY"]_vars

C15_SingularUpdateRaises ==
    [][(last' \in {"FirstUpdate", "SecondUpdate"} /\ Singular(BeliefCov)) =>
          /\ exc' = "LinAlgError"
          /\ calls' = calls
          /\ BeliefCov' = BeliefCov /\ BeliefMean' = BeliefMean]_vars

\* an update from the prior diag(0, 25) has raised and the prior is still there
C15_Witness ==
    /\ last = "FirstUpdate" /\ exc = "LinAlgError" /\ calls = 0
    /\ So = Diag(<<Zero, R(25)>>) /\ BeliefCov = So

\* C16 as stated: the initialization goes through only for a symmetric
\* positive-definite prior covariance (otherwise it fails and the updater
\* stays UNINITIALIZED), and then it sets the belief and nothing else of it.
C16_Original ==
    [][last' = "Initialization" =>
          /\ SPD(So') /\ exc' = "none"
          /\ BeliefMean' = mo' /\ BeliefCov' = So'
          /\ Sn' = Sn /\ mn' = mn]_vars

\* the steps that are one iteration of a training loop, and those that are a
\* run of a cell that calls Predictive outside the loops
Iterations == {"TrainIteration", "TrainIterationAuto", "TrainIterationBNN"}
PredictiveCells == {"PredictiveCell", "PredictiveCellBNN"}

\* C11: the guide parameters an iteration of a training loop leaves are the
\* ones its svi.step call left (the parameter reads, the Predictive call and
\* the refresh of the plot that follow the step in the iteration change
\* none), so the next step starts from them; and a Predictive cell run on a
\* trained guide leaves every parameter as it was.
C11_OnlyStepMovesParams ==
    [][/\ last' \in Iterations => store' = after_step'
       /\ (last' \in PredictiveCells /\ stepcalls > 0) => store' = store]_vars

\* the first iteration of the regression network's loop is over: its step has
\* moved the parameters, its Predictive call has drawn the samples of the plot
C11_Witness ==
    /\ last = "TrainIterationBNN" /\ exc = "none" /\ k = 1
    /\ samples # Undef /\ Len(pcalls) = 1
    /\ \A n \in DiagNames : store[n] \notin {0, NaN}
    /\ store = after_step

\* a loss as a rational (nan apart)
LossValue(v) == IF v = NaN THEN <<NaN, 1>> ELSE R(v)

\* the trace of losses the loop of the engine at hand writes
Trace ==
    IF svi = "built" THEN [i \in 1..Len(param_evolution["ELBO"]) |->
                              LossValue(param_evolution["ELBO"][i])]
    ELSE IF svi = "auto" THEN [i \in 1..Len(ELBO) |-> LossValue(ELBO[i])]
    ELSE epoch_loss

\* C12 as stated: after k completed step calls the trace holds exactly k
\* values, the i-th being the scalar the i-th step returned.
C12_Original ==
    svi # "none" =>
        /\ Len(Trace) = Len(returned)
        /\ \A i \in 1..Len(returned) : Trace[i] = LossValue(returned[i])

\* C12, amended: the lists of the two linear-regression loops hold exactly
\* the scalars the completed steps returned, in order; the array epoch_loss
\* has a fixed length, its first entries are these scalars each divided by the
\* number of training points, and the rest is still 0; and no step of a loop
\* changes or removes an entry that was written.
C12_TraceRecordsSteps ==
    [][/\ svi' \in {"built", "auto"} =>
            /\ Len(Trace') = Len(returned')
            /\ \A i \in 1..Len(returned') : Trace'[i] = LossValue(returned'[i])
       /\ svi' = "bnn" =>
            /\ Len(epoch_loss') = MaxStepsBNN
            /\ \A i \in 1..MaxStepsBNN :
                 epoch_loss'[i] =
                    IF i > Len(returned') THEN Zero
                    ELSE IF returned'[i] = NaN THEN <<NaN, 1>>
                    ELSE RDiv(R(returned'[i]), R(NData))
       /\ (svi' = svi /\ svi # "none") =>
            /\ Len(returned') >= Len(returned)
            /\ \A i \in 1..Len(returned) :
                 returned'[i] = returned[i] /\ Trace'[i] = Trace[i]]_vars

\* two steps of the regression network's loop have returned 3 and then 7
C12_Witness ==
    /\ svi = "bnn" /\ returned = <<3, 7>> /\ MaxStepsBNN > 2
    /\ epoch_loss[1] = <<1, 5>> /\ epoch_loss[2] = <<7, 15>> /\ epoch_loss[3] = Zero

\* C14 as stated: a step whose loss is not finite raises in that same step, so
\* no step returns such a loss to the loop, and no guide parameter is ever
\* updated from it.
C14_Original ==
    /\ \A i \in 1..Len(returned) : returned[i] # NaN
    /\ \A n \in DOMAIN store : store[n] # NaN

\* out[n], for a latent site n of the engine e, is num draws of the guide under
\* the parameters st, the j-th from place j of the call's draws; and out[n],
\* for another site n, is num values, the j-th made by the model from the j-th
\* draws of the latent sites and not from an observation
StackedDraws(e, st, out, sites, num) ==
    /\ \A n \in sites :
         /\ Len(out[n]) = num
         /\ \A i, j \in 1..num : i # j => out[n][i] # out[n][j]
    /\ \A n \in sites \cap e.latents : \A j \in 1..num :
         /\ out[n][j].site = n
         /\ out[n][j].params = [q \in e.names |-> st[q]]
         /\ out[n][j].at[3] = j
    /\ \A n \in sites \cap e.others : \A j \in 1..num :
         /\ out[n][j].site = n
         /\ DOMAIN out[n][j].params = e.latents
         /\ \A m \in e.latents :
              /\ out[n][j].params[m].at[3] = j
              /\ m \in sites => out[n][j].params[m] = out[m][j]

C18_Original ==
    \A i, j \in 1..Len(pcalls) :
        (/\ pcalls[i].params = pcalls[j].params
         /\ pcalls[i].inputs = pcalls[j].inputs
         /\ pcalls[i].seed = pcalls[j].seed) => pcalls[i].out = pcalls[j].out

\* C19 as stated: once the first engine has been trained, building and
\* stepping the second engine leaves its guide parameters in place, with the
\* values they had.
C19_Original ==
    [][(/\ svi = "built" /\ Len(returned) > 0
        /\ last' \in {"SetupAuto", "TrainIterationAuto"}) =>
          \A n \in ParamNames \cap DOMAIN store :
              n \in DOMAIN store' /\ store'[n] = store[n]]_vars

\* the number of iterations the loop of the engine e is written for
LoopCount(e) ==
    IF e = "built" THEN MaxSteps ELSE IF e = "auto" THEN MaxStepsAuto ELSE MaxStepsBNN

C21_GuideSitesAreModelLatents ==
    \A i \in 1..Len(pcalls) :
        pcalls[i].exc = "none" =>
            pcalls[i].traced.guide = pcalls[i].traced.model

\* the predictive cell has run the hand-written guide and model_obs
C21_Witness ==
    /\ last = "PredictiveCell" /\ exc = "none" /\ svi # "auto"
    /\ Len(pcalls) = 1 /\ pcalls[1].traced.guide = {"w", "b", "s"}
    /\ pcalls[1].traced.model = {"w", "b", "s"}

\* C22: every run of a model sampling cell leaves exactly as many parameter
\* draws as its loop has iterations, each one a draw of its own from the
\* normal distribution of the belief (mn, Sn) of that moment; a run after
\* another run leaves that many again, not more and not none.
C22_SampleModelsYieldsN ==
    [][last' = "SampleModels" =>
          /\ Len(rparams') = NModels
          /\ \A i \in 1..NModels :
               /\ rparams'[i].mean = BeliefMean /\ rparams'[i].cov = BeliefCov
               /\ rparams'[i].at = <<model_runs + 1, i>>
          /\ \A i, j \in 1..NModels : i # j => rparams'[i] # rparams'[j]]_vars

\* a model sampling cell has run a second time, after a second update
C22_Witness ==
    /\ last = "SampleModels" /\ model_runs = 2 /\ calls = 2
    /\ Len(rparams) = NModels /\ rparams[NModels].cov = Sn

\* the tolerance of a comparison of two means
Tol == <<1, 1000>>
RAbs(a) == <<Abs(a[1]), a[2]>>
NearV(u, v) ==
    /\ RLeq(RAbs(RSub(u[1], v[1])), Tol)
    /\ RLeq(RAbs(RSub(u[2], v[2])), Tol)

\* the first update was made with the single observation x = 2, y = 2 and
\* seps = 1. from a zero-mean prior of a scalar covariance above 1000
WideSingleUpdate ==
    /\ last = "FirstUpdate" /\ exc = "none" /\ calls = 1
    /\ seen = <<(<<2, 2>>)>> /\ seps = One
    /\ prior0[1] = ZeroV
    /\ prior0[2] = Diag(<<prior0[2][1][1], prior0[2][1][1]>>)
    /\ RLt(R(1000), prior0[2][1][1])

\* C24, as stated: after such an update the least-squares estimate
\* inv(Phi.T Phi) Phi.T y of the data exists and mn is within the tolerance
\* of it.
C24_Original ==
    WideSingleUpdate =>
        /\ ~Singular(PhiTPhi(Phi))
        /\ NearV(mn, Solve(PhiTPhi(Phi), PhiTy(Phi, y)))

\* Phi.T inv(Phi Phi.T) y of a single row: the least-squares solution of
\* smallest norm
MinNorm(P, Y) == VScale(RDiv(Y[1], Dot(P[1], P[1])), P[1])

\* C24: after such an update mn is within the tolerance of the least-squares
\* solution of smallest norm, (0.4, 0.8), and the line of mn passes within
\* the tolerance of the observation; Phi.T Phi is singular.
C24_WideUpdateIsMinNorm ==
    WideSingleUpdate =>
        /\ Singular(PhiTPhi(Phi))
        /\ NearV(mn, MinNorm(Phi, y))
        /\ NearV(mn, <<(<<2, 5>>), (<<4, 5>>)>>)
        /\ RLeq(RAbs(RSub(Dot(Phi[1], mn), y[1])), Tol)

C24_Witness ==
    /\ WideSingleUpdate
    /\ mn # MinNorm(Phi, y)
    /\ theta_plot.mean = mn

\* v > 0 for the value v of a parameter declared with constraints.positive:
\* the value is the exponential of the stored unconstrained number, which is
\* above 0 for every number and is nan for nan (nan > 0 is False)
StrictlyPositive(v) == v # NaN

\* C25 as stated: the values of w_scale, b_scale and s_loc that the guide of a
\* step finds or creates in the store are strictly positive, whatever number
\* of steps came before.
C25_Original ==
    [][last' = "TrainIteration" =>
          \A n \in PositiveNames : StrictlyPositive(GuideParams(store)[n])]_vars

\* C26 as stated: from the setup of the engine on, before any step, every
\* parameter of the guide is in the store; and every step changes the store.
C26_Original ==
    [][/\ (svi' = "built" /\ stepcalls' = 0 => ParamNames \subseteq DOMAIN store')
       /\ (last' = "TrainIteration" => store' # store)]_vars

\* C26: the setup of the engine leaves the store empty.  A step leaves every
\* parameter of the guide in the store: one that was not there is created at
\* its initial value by the guide of the step.  A step that returns moves the
\* store (a created parameter is then at most one move from its initial
\* value, or nan); a step that raises leaves the parameters as its guide
\* found or created them.
C26_ParamsCreatedByFirstGuideRun ==
    [][/\ (last' = "SetupSVI" => store' = EmptyStore /\ DOMAIN store' = {})
       /\ (last' = "TrainIteration" =>
             /\ DOMAIN store' = DOMAIN store \cup ParamNames
             /\ exc' = "none" =>
                  /\ store' # store
                  /\ \A n \in ParamNames \ DOMAIN store :
                        store'[n] \in {-1, 0, 1, NaN}
             /\ exc' # "none" =>
                  \A n \in ParamNames :
                      store'[n] = IF n \in DOMAIN store THEN store[n] ELSE 0)]_vars

\* two steps have returned, the first of which created the parameters, and no
\* Predictive call was made
C26_Witness ==
    /\ svi = "built" /\ last = "TrainIteration" /\ exc = "none"
    /\ Len(returned) = 2 /\ pcalls = <<>>
    /\ store["w_loc"] = 2 /\ store["w_scale"] = 0

\* C27: a run of the posterior predictive cell or of a model sampling cell
\* leaves So, mo, Sn, mn and seps as they were; after every cell, Sn and mn
\* are what the last update that went through left (the cloud theta_plot that
\* update drew is of them); and the second update cell takes its prior from
\* them.
C27_ReadsLeaveBelief ==
    [][/\ (last' \in {"PosteriorPredictive", "SampleModels"} =>
             /\ Sn' = Sn /\ mn' = mn /\ So' = So /\ mo' = mo /\ seps' = seps
             /\ calls' = calls)
       /\ (calls' >= 1 => theta_plot'.mean = mn' /\ theta_plot'.cov = Sn')
       /\ (last' = "SecondUpdate" => So' = Sn /\ mo' = mn)]_vars

\* a second update that went through after the predictive cell and two runs
\* of a model sampling cell
C27_Witness ==
    /\ last = "SecondUpdate" /\ exc = "none" /\ calls = 2
    /\ fx # Undef /\ model_runs = 2 /\ rparams[1].cov = So
    /\ Sn # So

\* C28 as stated: inside the loop of the regression network the generator the
\* next step draws from is the seeded generator advanced by the draws of the
\* steps made so far and by nothing else, so that a step draws what it would
\* draw in a run that never samples the predictive posterior.
C28_Original ==
    svi = "bnn" /\ pc = "loop" =>
        rng = Advance(Seeded(SeedBNN), Len(returned))

\* the step just made raised in the replay of the model: its guide found no
\* nan parameter and drew w, b and s, and the draw of s was outside the support
\* of Uniform(0.01, 10.0)
DrawOutsideSupport ==
    /\ svi = "built" /\ last = "TrainIteration" /\ exc = "ValueError"
    /\ \A n \in ParamNames : after_step[n] # NaN

\* C29 as stated: no step of the hand-written engine meets a draw of s outside
\* the support of the model's prior for s.
C29_Original == ~DrawOutsideSupport

\* C30 as stated: an iteration k of a training loop that refreshes its plot
\* leaves k + 1 values in the plotted loss series, the values the steps so far
\* have written, that of the iteration's own step among them.
C30_Original ==
    [][/\ (last' = "TrainIteration" /\ exc' = "none" /\ k % PlotEvery = 0 =>
             /\ Len(lines'["ELBO"]) = k + 1
             /\ lines'["ELBO"] = param_evolution'["ELBO"])
       /\ (last' = "TrainIterationAuto" /\ exc' = "none" /\ k % PlotEvery = 0 =>
             /\ Len(ax') = k + 1
             /\ ax' = ELBO')
       /\ (last' = "TrainIterationBNN" /\ exc' = "none" /\ k % PlotEveryBNN = 0 =>
             /\ Len(ax'.loss) = k + 1
             /\ ax'.loss = SubSeq(epoch_loss', 1, k + 1))]_vars

====
